---- MODULE Spec2Model ----
(***************************************************************************)
(* Model of the MQTT appender of log4rs (src/append/mqtt.rs).              *)
(*                                                                         *)
(* Strings are sequences of one-character strings.  Option<T> is a         *)
(* sequence of length at most one: None is <<>>, Some(x) is <<x>>.         *)
(*                                                                         *)
(* Spec      application threads in MqttAppender::append and ::flush       *)
(*           against one appender, next to the background thread that      *)
(*           build() spawned, until the appender is dropped                *)
(* FairSpec  Spec with fair threads, a fair mutex and a draining event loop *)
(* OrderSpec Spec with each thread's append calls numbered, at most        *)
(*           MaxCalls per thread, and the invocations the client sees      *)
(*           recorded                                                      *)
(* BuildSpec MqttAppenderDeserializer::deserialize, that is the builder    *)
(*           calls and build(), on configs drawn from Configs              *)
(*                                                                         *)
(* The rumqttc client is the appender's collaborator.  Its publish hands   *)
(* the request to the bounded request channel that Client::new(.., 10)     *)
(* creates: it returns Ok once the request is in the channel, waits while  *)
(* the channel is full, and returns Err when the client refuses the        *)
(* request.  The channel is emptied by the event loop that                 *)
(* connection.iter() polls, and only while the session is up.  The         *)
(* iterator ends when every Client handle is dropped and the event loop,   *)
(* its session up, finds the channel closed and empty.                     *)
(***************************************************************************)
EXTENDS Integers, Sequences, FiniteSets, TLC

\* ------------------------------------------------------------------ bounds
NThreads == 2
MaxBuilds == 2
MaxCalls == 2

\* ------------------------------------------------------- program constants
ChannelCap == 10
DefaultPort == 1883
KeepAliveSecs == 30
U16Max == 65535

\* ------------------------------------------------------------ string tools
NoneOpt == <<>>
Some(x) == <<x>>

LevelToken == <<"{", "l", "e", "v", "e", "l", "}">>
MqttPrefix == <<"m", "q", "t", "t", ":", "/", "/">>
MqttsPrefix == <<"m", "q", "t", "t", "s", ":", "/", "/">>
TcpPrefix == <<"t", "c", "p", ":", "/", "/">>

StartsWithAt(s, i, pat) ==
    /\ i + Len(pat) - 1 <= Len(s)
    /\ \A k \in 1..Len(pat) : s[i + k - 1] = pat[k]

Tail_(s, n) == SubSeq(s, n + 1, Len(s))

\* str::replace: every non-overlapping match, scanned left to right
RECURSIVE ReplaceFrom(_, _, _, _)
ReplaceFrom(s, i, pat, to) ==
    IF i > Len(s) THEN <<>>
    ELSE IF StartsWithAt(s, i, pat)
         THEN to \o ReplaceFrom(s, i + Len(pat), pat, to)
         ELSE <<s[i]>> \o ReplaceFrom(s, i + 1, pat, to)

\* a resolver that substitutes only the first match (str::replacen(.., 1))
RECURSIVE ReplaceFirstFrom(_, _, _, _)
ReplaceFirstFrom(s, i, pat, to) ==
    IF i > Len(s) THEN <<>>
    ELSE IF StartsWithAt(s, i, pat)
         THEN to \o SubSeq(s, i + Len(pat), Len(s))
         ELSE <<s[i]>> \o ReplaceFirstFrom(s, i + 1, pat, to)

ReplaceFirst(s, pat, to) == ReplaceFirstFrom(s, 1, pat, to)

Replace(s, pat, to) == ReplaceFrom(s, 1, pat, to)

\* log::Level as Display renders it
LevelName(level) ==
    CASE level = "Error" -> <<"E", "R", "R", "O", "R">>
      [] level = "Warn"  -> <<"W", "A", "R", "N">>
      [] level = "Info"  -> <<"I", "N", "F", "O">>
      [] level = "Debug" -> <<"D", "E", "B", "U", "G">>
      [] level = "Trace" -> <<"T", "R", "A", "C", "E">>

LowerOf ==
    [c \in {"A", "B", "C", "D", "E", "F", "G", "I", "N", "O", "R", "T", "U", "W"} |->
        CASE c = "A" -> "a" [] c = "B" -> "b" [] c = "C" -> "c" [] c = "D" -> "d"
          [] c = "E" -> "e" [] c = "F" -> "f" [] c = "G" -> "g" [] c = "I" -> "i"
          [] c = "N" -> "n" [] c = "O" -> "o" [] c = "R" -> "r" [] c = "T" -> "t"
          [] c = "U" -> "u" [] c = "W" -> "w"]

ToLowercase(s) == [k \in 1..Len(s) |-> IF s[k] \in DOMAIN LowerOf THEN LowerOf[s[k]] ELSE s[k]]

ResolveTopic(template, level) == Replace(template, LevelToken, ToLowercase(LevelName(level)))

\* MqttBuffer::write: extend_from_slice
MqttBufferWrite(buf, bytes) == buf \o bytes

\* ------------------------------------------------------- parse_broker_url
\* str::trim_start_matches: removes the prefix as long as the string starts with it
RECURSIVE TrimStartMatches(_, _)
TrimStartMatches(s, pat) ==
    IF StartsWithAt(s, 1, pat) THEN TrimStartMatches(Tail_(s, Len(pat)), pat) ELSE s

StripScheme(url) ==
    TrimStartMatches(TrimStartMatches(TrimStartMatches(url, MqttPrefix), MqttsPrefix), TcpPrefix)

\* str::rfind(':'): index of the last colon, 0 for None
RFindColon(s) ==
    LET at == {k \in 1..Len(s) : s[k] = ":"} IN
    IF at = {} THEN 0 ELSE CHOOSE k \in at : \A j \in at : j <= k

Digits == <<"0", "1", "2", "3", "4", "5", "6", "7", "8", "9">>

IsDigit(c) == \E d \in 1..10 : Digits[d] = c

DigitValue(c) == (CHOOSE d \in 1..10 : Digits[d] = c) - 1

RECURSIVE DigitsValue(_, _)
DigitsValue(s, acc) ==
    IF s = <<>> THEN acc ELSE DigitsValue(Tail(s), acc * 10 + DigitValue(Head(s)))

U16FromDigits(ds) ==
    IF ds # <<>> /\ (\A k \in 1..Len(ds) : IsDigit(ds[k])) /\ DigitsValue(ds, 0) <= U16Max
    THEN Some(DigitsValue(ds, 0))
    ELSE NoneOpt

\* a parser that wraps around instead of rejecting an overflow
ParseU16Wrapping(s) ==
    LET ds == IF s # <<>> /\ Head(s) = "+" THEN Tail(s) ELSE s IN
    IF ds # <<>> /\ (\A k \in 1..Len(ds) : IsDigit(ds[k]))
    THEN Some(DigitsValue(ds, 0) % (U16Max + 1))
    ELSE NoneOpt

\* str::parse::<u16>: an optional '+', then decimal digits, no overflow
ParseU16(s) ==
    U16FromDigits(IF s # <<>> /\ Head(s) = "+" THEN Tail(s) ELSE s)

parse_broker_url(broker) ==
    LET url == StripScheme(broker)
        colon_pos == RFindColon(url)
    IN  IF colon_pos # 0
        THEN LET port == ParseU16(SubSeq(url, colon_pos + 1, Len(url))) IN
             IF port = NoneOpt
             THEN [ok |-> FALSE, host |-> <<>>, port |-> 0]
             ELSE [ok |-> TRUE, host |-> SubSeq(url, 1, colon_pos - 1), port |-> port[1]]
        ELSE [ok |-> TRUE, host |-> url, port |-> DefaultPort]

\* ------------------------------------------------------ MqttAppenderBuilder
DefaultBroker ==
    MqttPrefix \o <<"l", "o", "c", "a", "l", "h", "o", "s", "t", ":", "1", "8", "8", "3">>
DefaultClientId == <<"l", "o", "g", "4", "r", "s">>
DefaultTopic == <<"l", "o", "g", "s">>

\* MqttAppender::builder()
NewBuilder ==
    [broker |-> DefaultBroker, client_id |-> DefaultClientId, topic |-> DefaultTopic,
     qos |-> "AtMostOnce", username |-> NoneOpt, password |-> NoneOpt, encoder |-> NoneOpt]

WithBroker(b, broker) == [b EXCEPT !.broker = broker]
WithClientId(b, client_id) == [b EXCEPT !.client_id = client_id]
WithTopic(b, t) == [b EXCEPT !.topic = t]
WithUsername(b, username) == [b EXCEPT !.username = username]
WithPassword(b, password) == [b EXCEPT !.password = password]
WithEncoder(b, e) == [b EXCEPT !.encoder = Some(e)]

\* a mapping that takes the two low bits of the integer
QosOfLowBits(n) ==
    CASE n % 4 = 0 -> "AtMostOnce"
      [] n % 4 = 1 -> "AtLeastOnce"
      [] n % 4 = 2 -> "ExactlyOnce"
      [] OTHER -> "AtMostOnce"

\* the match of MqttAppenderBuilder::qos
QosOf(n) ==
    CASE n = 0 -> "AtMostOnce"
      [] n = 1 -> "AtLeastOnce"
      [] n = 2 -> "ExactlyOnce"
      [] OTHER -> "AtMostOnce"

WithQos(b, n) == [b EXCEPT !.qos = QosOf(n)]

\* a build that sends a username on its own, with an empty password
CredentialsEither(username, password) ==
    IF username # NoneOpt
    THEN Some(<<username[1], IF password = NoneOpt THEN <<>> ELSE password[1]>>)
    ELSE NoneOpt

\* if let (Some(username), Some(password)) = (..) { set_credentials(..) }
Credentials(username, password) ==
    IF username # NoneOpt /\ password # NoneOpt
    THEN Some(<<username[1], password[1]>>)
    ELSE NoneOpt

\* MqttAppenderBuilder::build as a function of the builder: the result, and on
\* success the options of the client it creates and the appender's fields
BuildOutcome(b) ==
    LET p == parse_broker_url(b.broker) IN
    IF ~p.ok
    THEN [res |-> "InvalidPort", created |-> 0, options |-> NoneOpt,
          topic_template |-> <<>>, qos |-> "None", encoder |-> "None"]
    ELSE [res |-> "Ok", created |-> 1,
          options |-> Some([client_id |-> b.client_id, host |-> p.host, port |-> p.port,
                            keep_alive |-> KeepAliveSecs,
                            credentials |-> Credentials(b.username, b.password)]),
          topic_template |-> b.topic, qos |-> b.qos,
          encoder |-> IF b.encoder = NoneOpt THEN "PatternEncoder" ELSE b.encoder[1]]

\* the builder MqttAppenderDeserializer::deserialize assembles from a config
ConfiguredBuilder(config) ==
    LET b1 == WithPassword(WithUsername(WithTopic(WithClientId(
                  WithBroker(NewBuilder, config.broker), config.client_id),
                  config.topic), config.username), config.password)
        b2 == IF config.qos # NoneOpt THEN WithQos(b1, config.qos[1]) ELSE b1
    IN  IF config.encoder # NoneOpt THEN WithEncoder(b2, config.encoder[1]) ELSE b2

\* MqttAppenderDeserializer::deserialize as a function of the config
DeserializeOutcome(config) ==
    IF config.encoder = Some("Unknown")
    THEN [res |-> "EncoderErr", created |-> 0, options |-> NoneOpt,
          topic_template |-> <<>>, qos |-> "None", encoder |-> "None"]
    ELSE BuildOutcome(ConfiguredBuilder(config))

\* --------------------------------------------------------- the input sets
Threads == 1..NThreads
NoThread == 0

RunLevels == {"Info", "Error"}

ExampleTemplate ==
    <<"t", "e", "s", "t", "/", "l", "o", "g", "s", "/">> \o LevelToken
PlainTemplate == <<"l", "o", "g", "s">>
TwiceTemplate == LevelToken \o <<"/">> \o LevelToken

RECURSIVE ToDecimalFrom(_)
ToDecimalFrom(n) ==
    IF n < 10 THEN <<Digits[n + 1]>> ELSE ToDecimalFrom(n \div 10) \o <<Digits[(n % 10) + 1]>>

\* the decimal text of a port number
ToDecimal(n) == ToDecimalFrom(n)

Localhost == <<"l", "o", "c", "a", "l", "h", "o", "s", "t">>

Schemes == {<<>>, MqttPrefix, MqttsPrefix, TcpPrefix}
Hosts == {<<"h">>, <<>>, <<"a", ":", "b">>, TcpPrefix \o <<"h">>, MqttPrefix \o <<"h">>}
Ports == {0, 1883, U16Max}
InvalidPortTexts ==
    { <<"9", "9", "9", "9", "9">>, <<"a", "b", "c">>, <<"6", "5", "5", "3", "6">>,
      <<>>, <<"-", "1">>, <<"1", "a">> }

UrlOf(scheme, host, portText) == scheme \o host \o <<":">> \o portText

ValidUrls == {UrlOf(sc, h, ToDecimal(p)) : sc \in Schemes, h \in Hosts, p \in Ports}
InvalidUrls == {UrlOf(sc, h, t) : sc \in Schemes, h \in Hosts, t \in InvalidPortTexts}
BareUrls == {sc \o h : sc \in Schemes, h \in {Localhost, <<"h">>, <<>>}}
Urls == ValidUrls \cup InvalidUrls \cup BareUrls

\* the mqtt appender of examples/mqtt_debug_test.rs
ExampleConfig ==
    [broker |-> DefaultBroker, client_id |-> <<"d", "b", "g">>, topic |-> ExampleTemplate,
     qos |-> Some(0), username |-> NoneOpt, password |-> NoneOpt, encoder |-> Some("Pattern")]

QosInputs == 0..255

Configs ==
    {[ExampleConfig EXCEPT !.broker = u] : u \in Urls}
    \cup {[ExampleConfig EXCEPT !.qos = q] : q \in {NoneOpt} \cup {Some(n) : n \in QosInputs}}
    \cup {[ExampleConfig EXCEPT !.topic = t, !.username = u, !.password = pw, !.encoder = e] :
            t \in {PlainTemplate, TwiceTemplate},
            u \in {NoneOpt, Some(<<"u">>)}, pw \in {NoneOpt, Some(<<"p">>)},
            e \in {NoneOpt, Some("Pattern"), Some("Unknown")}}

\* the configs of the appenders the threads run against
RunConfigs ==
    { ExampleConfig,
      [ExampleConfig EXCEPT !.topic = PlainTemplate, !.qos = Some(1), !.encoder = NoneOpt],
      [ExampleConfig EXCEPT !.topic = TwiceTemplate, !.qos = Some(2)] }

\* what the encoder hands to the writer for a record, one write call each
EncoderPieces(level) == << LevelName(level), <<" ", "m">> >>

RECURSIVE Flatten(_)
Flatten(ss) == IF ss = <<>> THEN <<>> ELSE Head(ss) \o Flatten(Tail(ss))

\* ---------------------------------------------------------------- state
VARIABLES
    config,                     \* the config last handed to deserialize
    buildRes,                   \* what the last build returned
    mqtt_options,               \* options of the client that build created, if any
    nClients, nTasks,           \* clients created and threads spawned so far
    nBuilt,                     \* appenders that build has returned so far
    sameConfig,                 \* the last config equals the one handed in before it
    topic_template, qos, encoder,   \* fields of the MqttAppender that build returned
    lock,                       \* holder of Mutex<Client>, NoThread when free
    pending,                    \* requests queued in the client's request channel
    connected,                  \* session to the broker is up
    taskPc,                     \* background thread: its position
    clientOps,                  \* kinds of client operation ever invoked
    pc,                         \* per thread: its position in append
    rec,                        \* per thread: the record passed to append (its level)
    buffer,                     \* per thread: the bytes in its MqttBuffer
    wrote,                      \* per thread: the pieces the encoder passed to write
    topic,                      \* per thread: the resolved topic
    pubArgs,                    \* per thread: the arguments of its publish invocation
    pubFail,                    \* per thread: the client refuses its publish
    pubConn,                    \* per thread: session was up when its publish returned
    pubs,                       \* per thread: publish invocations of its current call
    result,                     \* per thread: what its last append returned
    flushed,                    \* per thread: its last call was flush(), which returned
    dropped,                    \* the MqttAppender, and with it the Client, was dropped
    calls,                      \* per thread: the numbered append calls it has made
    reached                     \* per thread: the numbers of the calls whose publish
                                \* invocation reached the client, in order of arrival

vars == << config, buildRes, mqtt_options, nClients, nTasks, nBuilt, sameConfig,
           topic_template, qos, encoder, lock, pending, connected, taskPc,
           clientOps, pc, rec, buffer, wrote, topic, pubArgs, pubFail, pubConn,
           pubs, result, flushed, dropped, calls, reached >>

obsVars == << calls, reached >>
clientVars == << pending, connected, clientOps >>
taskVars == << taskPc >>
cfgVars == << config, buildRes, mqtt_options, nClients, nTasks, nBuilt, sameConfig,
             topic_template, qos, encoder >>
threadVars == << pc, rec, buffer, wrote, topic, pubArgs, pubFail, pubConn, pubs, result >>
localVars == << rec, buffer, wrote, topic, pubArgs, pubFail, pubConn >>

\* the client and the background thread as build() leaves them, no thread in append
Fresh ==
    /\ lock = NoThread
    /\ pending = 0
    /\ connected = FALSE
    /\ taskPc = "next"
    /\ clientOps = {}
    /\ pc = [t \in Threads |-> "idle"]
    /\ rec = [t \in Threads |-> NoneOpt]
    /\ buffer = [t \in Threads |-> <<>>]
    /\ wrote = [t \in Threads |-> <<>>]
    /\ topic = [t \in Threads |-> <<>>]
    /\ pubArgs = [t \in Threads |-> NoneOpt]
    /\ pubFail = [t \in Threads |-> FALSE]
    /\ pubConn = [t \in Threads |-> FALSE]
    /\ pubs = [t \in Threads |-> 0]
    /\ result = [t \in Threads |-> "None"]
    /\ flushed = [t \in Threads |-> FALSE]
    /\ dropped = FALSE
    /\ calls = [t \in Threads |-> 0]
    /\ reached = [t \in Threads |-> <<>>]

\* an appender built from one of RunConfigs, before any append
Init ==
    /\ \E c \in RunConfigs :
        \E out \in {DeserializeOutcome(c)} :
        /\ config = Some(c)
        /\ buildRes = out.res
        /\ mqtt_options = out.options
        /\ nClients = out.created
        /\ nTasks = out.created
        /\ nBuilt = out.created
        /\ sameConfig = FALSE
        /\ topic_template = out.topic_template
        /\ qos = out.qos
        /\ encoder = out.encoder
    /\ Fresh

\* nothing built yet
InitBuild ==
    /\ config = NoneOpt
    /\ buildRes = "None"
    /\ mqtt_options = NoneOpt
    /\ nClients = 0
    /\ nTasks = 0
    /\ nBuilt = 0
    /\ sameConfig = FALSE
    /\ topic_template = <<>>
    /\ qos = "None"
    /\ encoder = "None"
    /\ Fresh

\* a build that leaves the loop to the thread an earlier build started
SpawnedByFirstOnly(out) == IF nTasks = 0 THEN out.created ELSE 0

\* thread::spawn runs once in every build that got past parse_broker_url
SpawnedBy(out) == out.created

\* MqttAppenderDeserializer::deserialize(config, ..), build() included
Deserialize(c) ==
    /\ nClients < MaxBuilds
    /\ \E out \in {DeserializeOutcome(c)} :
        /\ config' = Some(c)
        /\ buildRes' = out.res
        /\ nClients' = nClients + out.created
        /\ nTasks' = nTasks + SpawnedBy(out)
        /\ nBuilt' = nBuilt + (IF out.res = "Ok" THEN 1 ELSE 0)
        /\ sameConfig' = (config = Some(c))
        /\ mqtt_options' = out.options
        /\ topic_template' = out.topic_template
        /\ qos' = out.qos
        /\ encoder' = out.encoder
    /\ UNCHANGED << lock, clientVars, taskVars, threadVars, flushed, dropped, obsVars >>

NextBuild == \E c \in Configs : Deserialize(c)

BuildSpec == InitBuild /\ [][NextBuild]_vars

\* ------------------------------------------------------ MqttAppender::append
\* entry: let mut buffer = MqttBuffer::new()
AppendCall(t, level) ==
    /\ pc[t] = "idle"
    /\ ~dropped
    /\ pc' = [pc EXCEPT ![t] = "encode"]
    /\ rec' = [rec EXCEPT ![t] = Some(level)]
    /\ buffer' = [buffer EXCEPT ![t] = <<>>]
    /\ wrote' = [wrote EXCEPT ![t] = <<>>]
    /\ pubs' = [pubs EXCEPT ![t] = 0]
    /\ result' = [result EXCEPT ![t] = "None"]
    /\ flushed' = [flushed EXCEPT ![t] = FALSE]
    /\ UNCHANGED << cfgVars, dropped, obsVars, lock, clientVars, taskVars, topic, pubArgs,
                    pubFail, pubConn >>

\* AppendCall as the thread's next numbered call
NumberedAppendCall(t, level) ==
    /\ pc[t] = "idle"
    /\ ~dropped
    /\ calls[t] < MaxCalls
    /\ calls' = [calls EXCEPT ![t] = calls[t] + 1]
    /\ pc' = [pc EXCEPT ![t] = "encode"]
    /\ rec' = [rec EXCEPT ![t] = Some(level)]
    /\ buffer' = [buffer EXCEPT ![t] = <<>>]
    /\ wrote' = [wrote EXCEPT ![t] = <<>>]
    /\ pubs' = [pubs EXCEPT ![t] = 0]
    /\ result' = [result EXCEPT ![t] = "None"]
    /\ flushed' = [flushed EXCEPT ![t] = FALSE]
    /\ UNCHANGED << cfgVars, dropped, reached, lock, clientVars, taskVars, topic, pubArgs,
                    pubFail, pubConn >>

\* the encoder writes its next piece into the buffer
EncodeWrite(t) ==
    /\ pc[t] = "encode"
    /\ Len(wrote[t]) < Len(EncoderPieces(rec[t][1]))
    /\ LET piece == EncoderPieces(rec[t][1])[Len(wrote[t]) + 1] IN
        /\ buffer' = [buffer EXCEPT ![t] = MqttBufferWrite(buffer[t], piece)]
        /\ wrote' = [wrote EXCEPT ![t] = Append(wrote[t], piece)]
    /\ UNCHANGED << cfgVars, flushed, dropped, obsVars, lock, clientVars, taskVars, pc, rec,
                    topic, pubArgs, pubFail, pubConn, pubs, result >>

\* self.encoder.encode(..) returned Ok
EncodeOk(t) ==
    /\ pc[t] = "encode"
    /\ Len(wrote[t]) = Len(EncoderPieces(rec[t][1]))
    /\ pc' = [pc EXCEPT ![t] = "resolve"]
    /\ UNCHANGED << cfgVars, flushed, dropped, obsVars, lock, clientVars, taskVars, rec,
                    buffer, wrote, topic, pubArgs, pubFail, pubConn, pubs, result >>

\* an append that publishes what the buffer holds when the encoder failed
EncodeErrPublishes(t) ==
    /\ pc[t] = "encode"
    /\ pending < ChannelCap
    /\ pc' = [pc EXCEPT ![t] = "idle"]
    /\ result' = [result EXCEPT ![t] = "Err"]
    /\ rec' = [rec EXCEPT ![t] = NoneOpt]
    /\ buffer' = [buffer EXCEPT ![t] = <<>>]
    /\ wrote' = [wrote EXCEPT ![t] = <<>>]
    /\ pubs' = [pubs EXCEPT ![t] = pubs[t] + 1]
    /\ pending' = pending + 1
    /\ clientOps' = clientOps \cup {"publish"}
    /\ UNCHANGED << cfgVars, flushed, dropped, obsVars, lock, connected, taskVars, topic,
                    pubArgs, pubFail, pubConn >>

\* self.encoder.encode(..)? returned Err: append returns it, locals dropped
EncodeErr(t) ==
    /\ pc[t] = "encode"
    /\ pc' = [pc EXCEPT ![t] = "idle"]
    /\ result' = [result EXCEPT ![t] = "Err"]
    /\ rec' = [rec EXCEPT ![t] = NoneOpt]
    /\ buffer' = [buffer EXCEPT ![t] = <<>>]
    /\ wrote' = [wrote EXCEPT ![t] = <<>>]
    /\ UNCHANGED << cfgVars, flushed, dropped, obsVars, lock, clientVars, taskVars, topic,
                    pubArgs, pubFail, pubConn, pubs >>

\* an append that takes the mutex before it resolves the topic
ResolveUnderLock(t) ==
    /\ pc[t] = "resolve"
    /\ lock = NoThread
    /\ lock' = t
    /\ topic' = [topic EXCEPT ![t] = ResolveTopic(topic_template, rec[t][1])]
    /\ pc' = [pc EXCEPT ![t] = "lock"]
    /\ UNCHANGED << cfgVars, flushed, dropped, obsVars, clientVars, taskVars, rec, buffer,
                    wrote, pubArgs, pubFail, pubConn, pubs, result >>

\* let topic = self.topic_template.replace("{level}", ..)
Resolve(t) ==
    /\ pc[t] = "resolve"
    /\ topic' = [topic EXCEPT ![t] = ResolveTopic(topic_template, rec[t][1])]
    /\ pc' = [pc EXCEPT ![t] = "lock"]
    /\ UNCHANGED << cfgVars, flushed, dropped, obsVars, lock, clientVars, taskVars, rec,
                    buffer, wrote, pubArgs, pubFail, pubConn, pubs, result >>

\* a lock() that does not wait for the holder
LockFreeBroken == TRUE

\* parking_lot::Mutex::lock gets through only while nobody holds the mutex
LockFree == lock = NoThread

\* a publish that asks the broker to retain the message
PublishArgsRetained(t) == [topic |-> topic[t], qos |-> qos, retain |-> TRUE, payload |-> buffer[t]]

\* the arguments of client.publish(&topic, self.qos, false, buffer.0)
PublishArgs(t) == [topic |-> topic[t], qos |-> qos, retain |-> FALSE, payload |-> buffer[t]]

\* an append that locks the mutex and then locks it again
LockTwice(t) ==
    /\ pc[t] = "lock"
    /\ LockFree
    /\ lock' = t
    /\ UNCHANGED << cfgVars, flushed, dropped, obsVars, clientVars, taskVars, threadVars >>

\* let client = self.client.lock(); client.publish(..) is entered.  Whether the
\* client refuses the request is decided before it is sent to the channel
Lock(t) ==
    /\ pc[t] = "lock"
    /\ LockFree
    /\ lock' = t
    /\ pc' = [pc EXCEPT ![t] = "publish"]
    /\ pubArgs' = [pubArgs EXCEPT ![t] = Some(PublishArgs(t))]
    /\ pubs' = [pubs EXCEPT ![t] = pubs[t] + 1]
    /\ clientOps' = clientOps \cup {"publish"}
    /\ \E f \in BOOLEAN : pubFail' = [pubFail EXCEPT ![t] = f]
    /\ UNCHANGED << cfgVars, flushed, dropped, obsVars, pending, connected, taskVars, rec,
                    buffer, wrote, topic, pubConn, result >>

\* a client that sees the newest invocation ahead of the earlier ones
ReachedAfterFront(log, n) == <<n>> \o log

\* the client sees an invocation after all the invocations made before it
ReachedAfter(log, n) == Append(log, n)

\* Lock for a numbered call: the invocation is recorded as the client sees it
NumberedLock(t) ==
    /\ pc[t] = "lock"
    /\ LockFree
    /\ lock' = t
    /\ pc' = [pc EXCEPT ![t] = "publish"]
    /\ pubArgs' = [pubArgs EXCEPT ![t] = Some(PublishArgs(t))]
    /\ pubs' = [pubs EXCEPT ![t] = pubs[t] + 1]
    /\ clientOps' = clientOps \cup {"publish"}
    /\ \E f \in BOOLEAN : pubFail' = [pubFail EXCEPT ![t] = f]
    /\ reached' = [reached EXCEPT ![t] = ReachedAfter(reached[t], calls[t])]
    /\ UNCHANGED << cfgVars, flushed, dropped, calls, pending, connected, taskVars, rec,
                    buffer, wrote, topic, pubConn, result >>

\* a client that takes requests only while the session is up
ChannelHasRoomConnected == pending < ChannelCap /\ connected

\* the request channel of Client::new(mqtt_options, 10) takes the request
ChannelHasRoom == pending < ChannelCap

\* a publish that refuses the request while the session is down
PublishOkFailsOffline(t) ==
    /\ pc[t] = "publish"
    /\ ~pubFail[t]
    /\ ChannelHasRoom
    /\ pending' = IF connected THEN pending + 1 ELSE pending
    /\ pc' = [pc EXCEPT ![t] = "drop"]
    /\ result' = [result EXCEPT ![t] = IF connected THEN "Ok" ELSE "Err"]
    /\ pubConn' = [pubConn EXCEPT ![t] = connected]
    /\ UNCHANGED << cfgVars, flushed, dropped, obsVars, lock, connected, clientOps,
                    taskVars, rec, buffer, wrote, topic, pubArgs, pubFail, pubs >>

\* publish returned Ok(_): the request is queued
PublishOk(t) ==
    /\ pc[t] = "publish"
    /\ ~pubFail[t]
    /\ ChannelHasRoom
    /\ pending' = pending + 1
    /\ pc' = [pc EXCEPT ![t] = "drop"]
    /\ result' = [result EXCEPT ![t] = "Ok"]
    /\ pubConn' = [pubConn EXCEPT ![t] = connected]
    /\ UNCHANGED << cfgVars, flushed, dropped, obsVars, lock, connected, clientOps,
                    taskVars, rec, buffer, wrote, topic, pubArgs, pubFail, pubs >>

\* a publish that is invoked again when it failed
PublishErrRetry(t) ==
    /\ pc[t] = "publish"
    /\ pubFail[t]
    /\ pubs' = [pubs EXCEPT ![t] = pubs[t] + 1]
    /\ pubFail' = [pubFail EXCEPT ![t] = FALSE]
    /\ UNCHANGED << cfgVars, flushed, dropped, obsVars, lock, clientVars, taskVars, pc, rec,
                    buffer, wrote, topic, pubArgs, pubConn, result >>

\* publish returned Err(e): Err(e.into())
PublishErr(t) ==
    /\ pc[t] = "publish"
    /\ pubFail[t]
    /\ pc' = [pc EXCEPT ![t] = "drop"]
    /\ result' = [result EXCEPT ![t] = "Err"]
    /\ pubConn' = [pubConn EXCEPT ![t] = connected]
    /\ UNCHANGED << cfgVars, flushed, dropped, obsVars, lock, clientVars, taskVars, rec,
                    buffer, wrote, topic, pubArgs, pubFail, pubs >>

\* a guard that stays held when the call failed
GuardDroppedOnOkOnly(t, res) == IF res = "Err" THEN t ELSE NoThread

\* the holder of the mutex once the MutexGuard `client` is dropped
GuardDropped(t, res) == NoThread

\* end of append: the guard and the other locals are dropped, the value returned
AppendReturn(t) ==
    /\ pc[t] = "drop"
    /\ lock' = GuardDropped(t, result[t])
    /\ pc' = [pc EXCEPT ![t] = "idle"]
    /\ rec' = [rec EXCEPT ![t] = NoneOpt]
    /\ buffer' = [buffer EXCEPT ![t] = <<>>]
    /\ wrote' = [wrote EXCEPT ![t] = <<>>]
    /\ topic' = [topic EXCEPT ![t] = <<>>]
    /\ pubArgs' = [pubArgs EXCEPT ![t] = NoneOpt]
    /\ pubConn' = [pubConn EXCEPT ![t] = FALSE]
    /\ pubFail' = [pubFail EXCEPT ![t] = FALSE]
    /\ UNCHANGED << cfgVars, flushed, dropped, obsVars, clientVars, taskVars, pubs, result
                    >>

\* ------------------------------------------------------- MqttAppender::flush
\* a flush that goes through the client mutex
FlushUnderLock(t) ==
    /\ pc[t] = "idle"
    /\ ~dropped
    /\ LockFree
    /\ flushed' = [flushed EXCEPT ![t] = TRUE]
    /\ UNCHANGED << cfgVars, dropped, obsVars, lock, clientVars, taskVars, pc, rec, buffer,
                    wrote, topic, pubArgs, pubFail, pubConn, pubs, result >>

\* fn flush(&self) {}: called by a thread that is not inside append
Flush(t) ==
    /\ pc[t] = "idle"
    /\ ~dropped
    /\ flushed' = [flushed EXCEPT ![t] = TRUE]
    /\ UNCHANGED << cfgVars, dropped, obsVars, lock, clientVars, taskVars, pc, rec, buffer,
                    wrote, topic, pubArgs, pubFail, pubConn, pubs, result >>

\* the MqttAppender is dropped, and with it the only Client handle: no thread
\* borrows it any more
DropAppender ==
    /\ ~dropped
    /\ \A t \in Threads : pc[t] = "idle"
    /\ dropped' = TRUE
    /\ UNCHANGED << cfgVars, flushed, obsVars, lock, clientVars, taskVars, pc, rec, buffer,
                    wrote, topic, pubArgs, pubFail, pubConn, pubs, result >>

\* ------------------------------------------- background thread of build()
\* a loop that leaves on a transport error
IterNextBreakOnErr(kind) ==
    /\ taskPc = "next"
    /\ taskPc' = (IF kind = "Err" THEN "done" ELSE "next")
    /\ CASE kind = "ConnAck" ->
              /\ ~connected
              /\ connected' = TRUE
              /\ pending' = pending
         [] kind = "Incoming" ->
              /\ connected
              /\ UNCHANGED << connected, pending >>
         [] kind = "Outgoing" ->
              /\ connected
              /\ connected' = connected
              /\ \E d \in {0, 1} : d <= pending /\ pending' = pending - d
         [] kind = "Err" ->
              /\ connected' = FALSE
              /\ pending' = pending
    /\ UNCHANGED << cfgVars, flushed, dropped, obsVars, lock, clientOps, threadVars >>

\* a loop that handles each notification under the client mutex
IterNextUnderLock(kind) ==
    /\ taskPc = "next"
    /\ LockFree
    /\ taskPc' = "next"
    /\ CASE kind = "ConnAck" ->
              /\ ~connected
              /\ connected' = TRUE
              /\ pending' = pending
         [] kind = "Incoming" ->
              /\ connected
              /\ UNCHANGED << connected, pending >>
         [] kind = "Outgoing" ->
              /\ connected
              /\ connected' = connected
              /\ \E d \in {0, 1} : d <= pending /\ pending' = pending - d
         [] kind = "Err" ->
              /\ connected' = FALSE
              /\ pending' = pending
    /\ UNCHANGED << cfgVars, flushed, dropped, obsVars, lock, clientOps, threadVars >>

\* one iteration of `for notification in connection.iter()`: the iterator polls
\* the event loop and yields a notification, the matching arm does nothing
IterNext(kind) ==
    /\ taskPc = "next"
    /\ taskPc' = "next"
    /\ CASE kind = "ConnAck" ->
              /\ ~connected
              /\ connected' = TRUE
              /\ pending' = pending
         [] kind = "Incoming" ->
              /\ connected
              /\ UNCHANGED << connected, pending >>
         [] kind = "Outgoing" ->
              /\ connected
              /\ connected' = connected
              /\ \E d \in {0, 1} : d <= pending /\ pending' = pending - d
         [] kind = "Err" ->
              /\ connected' = FALSE
              /\ pending' = pending
    /\ UNCHANGED << cfgVars, flushed, dropped, obsVars, lock, clientOps, threadVars >>

NotificationKinds == {"ConnAck", "Incoming", "Outgoing", "Err"}

\* connection.iter() yields None: every Client handle is gone and the event
\* loop, its session up, has sent the queued requests on.  The for loop ends
\* and the thread with it
IterEnd ==
    /\ taskPc = "next"
    /\ dropped
    /\ connected
    /\ pending = 0
    /\ taskPc' = "done"
    /\ UNCHANGED << cfgVars, flushed, dropped, obsVars, lock, clientVars, threadVars >>

Next ==
    \/ \E t \in Threads, level \in RunLevels : AppendCall(t, level)
    \/ \E t \in Threads : EncodeWrite(t)
    \/ \E t \in Threads : EncodeOk(t)
    \/ \E t \in Threads : EncodeErr(t)
    \/ \E t \in Threads : Resolve(t)
    \/ \E t \in Threads : Lock(t)
    \/ \E t \in Threads : PublishOk(t)
    \/ \E t \in Threads : PublishErr(t)
    \/ \E t \in Threads : AppendReturn(t)
    \/ \E kind \in NotificationKinds : IterNext(kind)
    \/ \E t \in Threads : Flush(t)
    \/ DropAppender
    \/ IterEnd

Spec == Init /\ [][Next]_vars

\* the example appender
InitOrder == Init /\ config = Some(ExampleConfig)

\* Next with every append call numbered, at most MaxCalls of them per thread
NextOrder ==
    \/ \E t \in Threads, level \in RunLevels : NumberedAppendCall(t, level)
    \/ \E t \in Threads : EncodeWrite(t)
    \/ \E t \in Threads : EncodeOk(t)
    \/ \E t \in Threads : EncodeErr(t)
    \/ \E t \in Threads : Resolve(t)
    \/ \E t \in Threads : NumberedLock(t)
    \/ \E t \in Threads : PublishOk(t)
    \/ \E t \in Threads : PublishErr(t)
    \/ \E t \in Threads : AppendReturn(t)
    \/ \E kind \in NotificationKinds : IterNext(kind)
    \/ \E t \in Threads : Flush(t)
    \/ DropAppender
    \/ IterEnd

OrderSpec == InitOrder /\ [][NextOrder]_vars

\* ------------------------------------------------------- fair scheduling
ThreadStep(t) ==
    \/ EncodeWrite(t) \/ EncodeOk(t) \/ EncodeErr(t) \/ Resolve(t)
    \/ PublishOk(t) \/ PublishErr(t) \/ AppendReturn(t)

\* the background thread sends a queued request on while the session is up
Drain == IterNext("Outgoing") /\ pending' = pending - 1

\* every thread inside append keeps running, the lock is fair, and the
\* background thread keeps draining the channel while connected; whether the
\* broker is ever reached is left to the environment
Fairness ==
    /\ \A t \in Threads : WF_vars(ThreadStep(t))
    /\ \A t \in Threads : SF_vars(Lock(t))
    /\ WF_vars(Drain)

FairSpec == Init /\ [][Next]_vars /\ Fairness

\* ------------------------------------------------------------- properties
Returned(t) == pc[t] = "idle" /\ result[t] # "None"

\* C1: at any instant at most one thread is inside client.publish
C1_AtMostOnePublishInFlight ==
    Cardinality({t \in Threads : pc[t] = "publish"}) <= 1

\* one thread is inside publish while another waits for the lock
C1_Witness ==
    \E t, u \in Threads : t # u /\ pc[t] = "publish" /\ pc[u] = "lock"

\* C2 as stated: every append call that has returned made exactly one publish
\* invocation
C2_ExactlyOnePublishPerAppend ==
    \A t \in Threads : Returned(t) => pubs[t] = 1

\* C2 amended: an append call returns having made exactly one publish
\* invocation when its record was encoded, and none when the encoder failed
C2_OnePublishPerEncodedAppend ==
    [][\A t \in Threads :
        (pc[t] # "idle" /\ pc'[t] = "idle") =>
            pubs'[t] = (IF pc[t] = "encode" THEN 0 ELSE 1)]_vars

\* all threads have returned from an append that published once
C2_Witness ==
    \A t \in Threads : Returned(t) /\ result[t] = "Ok" /\ pubs[t] = 1

\* C3: a publish failure is returned by append as an error, the lock is free
\* once append has returned, and the lock is only ever held by a thread that
\* is between lock() and the end of append
C3_PublishFailureReturnedLockFreed ==
    [][/\ \A t \in Threads :
            (pc[t] = "drop" /\ pubFail[t] /\ pc'[t] = "idle") =>
                (result'[t] = "Err" /\ lock' = NoThread)
       /\ \A t \in Threads :
            (pc[t] = "publish" /\ pubFail[t] /\ pc'[t] # "publish") =>
                (pc'[t] = "drop" /\ result'[t] = "Err")
       /\ lock' # NoThread => pc'[lock'] \in {"publish", "drop"}]_vars

\* after a thread's append returned a publish failure, another thread is
\* inside its own publish
C3_Witness ==
    \E t, u \in Threads :
        /\ t # u
        /\ Returned(t) /\ result[t] = "Err" /\ pubs[t] = 1
        /\ pc[u] = "publish" /\ lock = u

\* C4 as stated: however long the broker stays disconnected, every append
\* call returns to its caller
C4_EveryAppendReturns ==
    \A t \in Threads : ([](~connected)) => ((pc[t] # "idle") ~> (pc[t] = "idle"))

\* C4 amended: an append call that is inside publish while the request
\* channel holds fewer than 10 requests returns to its caller, connected or not
C4_AppendReturnsWhileChannelHasRoom ==
    \A t \in Threads : (pc[t] = "publish" /\ pending < ChannelCap) ~> (pc[t] = "idle")

\* with the broker never reached, an append has returned Ok after filling the
\* last slot of the request channel and the next append is inside publish
C4_Witness ==
    \E t, u \in Threads :
        /\ t # u
        /\ ~connected /\ pending = ChannelCap
        /\ Returned(t) /\ result[t] = "Ok"
        /\ pc[u] = "publish" /\ ~pubFail[u]

\* C5 as stated: a publish that returns while the session is disconnected
\* returns an error
C5_DisconnectedPublishFails ==
    \A t \in Threads : (pc[t] = "drop" /\ ~pubConn[t]) => result[t] = "Err"

\* C5 amended: whether the session is connected or not, append returns an
\* error exactly when the client's publish reported a failure; a request the
\* client accepts while disconnected is queued and append returns Ok
C5_ErrorOnlyWhenClientReportsFailure ==
    \A t \in Threads :
        pc[t] = "drop" => result[t] = (IF pubFail[t] THEN "Err" ELSE "Ok")

\* a publish has returned Ok while the session was disconnected
C5_Witness ==
    \E t \in Threads : pc[t] = "drop" /\ ~pubConn[t] /\ result[t] = "Ok" /\ ~connected

LowerName(level) ==
    CASE level = "Error" -> <<"e", "r", "r", "o", "r">>
      [] level = "Warn"  -> <<"w", "a", "r", "n">>
      [] level = "Info"  -> <<"i", "n", "f", "o">>
      [] level = "Debug" -> <<"d", "e", "b", "u", "g">>
      [] level = "Trace" -> <<"t", "r", "a", "c", "e">>

ExpectedTopic(template, level) ==
    CASE template = ExampleTemplate ->
            <<"t", "e", "s", "t", "/", "l", "o", "g", "s", "/">> \o LowerName(level)
      [] template = PlainTemplate -> PlainTemplate
      [] template = TwiceTemplate -> LowerName(level) \o <<"/">> \o LowerName(level)

ExpectedQos(q) ==
    IF q = Some(1) THEN "AtLeastOnce" ELSE IF q = Some(2) THEN "ExactlyOnce" ELSE "AtMostOnce"

\* C6: every publish invocation carries the topic resolved from the template
\* and the record's level, the QoS configured at build time, retain = false and
\* the bytes the encoder wrote; publish is the only client operation issued
C6_PublishArguments ==
    /\ clientOps \subseteq {"publish"}
    /\ \A t \in Threads :
        pc[t] \in {"publish", "drop"} =>
            pubArgs[t] = Some([topic |-> ExpectedTopic(config[1].topic, rec[t][1]),
                               qos |-> ExpectedQos(config[1].qos),
                               retain |-> FALSE,
                               payload |-> Flatten(wrote[t])])

\* the example appender publishes an Info record to test/logs/info
C6_Witness ==
    \E t \in Threads :
        /\ config = Some(ExampleConfig)
        /\ pc[t] = "publish"
        /\ rec[t] = Some("Info")
        /\ pubArgs[t] =
            Some([topic |-> <<"t", "e", "s", "t", "/", "l", "o", "g", "s", "/", "i", "n", "f", "o">>,
                  qos |-> "AtMostOnce", retain |-> FALSE, payload |-> <<"I", "N", "F", "O", " ", "m">>])

Resolved(t) == pc[t] \in {"lock", "publish", "drop"}

Occurs(s, pat) == \E i \in 1..Len(s) : StartsWithAt(s, i, pat)

\* C7 as stated: only the first occurrence of the placeholder is substituted
C7_OnlyFirstOccurrenceReplaced ==
    \A t \in Threads :
        Resolved(t) =>
            topic[t] = ReplaceFirst(topic_template, LevelToken, LowerName(rec[t][1]))

\* C7 amended: every occurrence of the placeholder is substituted, so the
\* resolved topic contains no placeholder
C7_EveryOccurrenceReplaced ==
    \A t \in Threads :
        Resolved(t) =>
            /\ ~Occurs(topic[t], LevelToken)
            /\ topic[t] = ExpectedTopic(topic_template, rec[t][1])

\* a template with two placeholders resolved for an Error record
C7_Witness ==
    \E t \in Threads :
        /\ topic_template = TwiceTemplate
        /\ Resolved(t)
        /\ topic[t] = <<"e", "r", "r", "o", "r", "/", "e", "r", "r", "o", "r">>

Attempted == config # NoneOpt /\ buildRes \in {"Ok", "InvalidPort"}

StartsWithScheme(h) ==
    StartsWithAt(h, 1, MqttPrefix) \/ StartsWithAt(h, 1, MqttsPrefix) \/ StartsWithAt(h, 1, TcpPrefix)

\* C8: for <scheme>://host:port with any of the four schemes, any host and any
\* port in 0..65535 the parsed address is exactly (host, port); with no colon
\* after the scheme the remainder is the host and the port is 1883
C8_ParsedAddressIsHostAndPort ==
    Attempted =>
        /\ \A sc \in Schemes, h \in Hosts, p \in Ports :
            (config[1].broker = UrlOf(sc, h, ToDecimal(p)) /\ (sc = <<>> => ~StartsWithScheme(h))) =>
                /\ buildRes = "Ok"
                /\ mqtt_options[1].host = h
                /\ mqtt_options[1].port = p
        /\ \A sc \in Schemes, h \in {Localhost, <<"h">>, <<>>} :
            config[1].broker = sc \o h =>
                /\ buildRes = "Ok"
                /\ mqtt_options[1].host = h
                /\ mqtt_options[1].port = 1883

InvalidPortStep ==
    /\ config' # NoneOpt
    /\ config'[1].broker \in InvalidUrls
    /\ config'[1].encoder # Some("Unknown")

\* C9: when the text after the last colon is not a valid unsigned 16-bit
\* integer, build returns the invalid-port error and neither creates a client
\* nor spawns the background thread
C9_InvalidPortBuildsNothing ==
    [][InvalidPortStep =>
        /\ buildRes' = "InvalidPort"
        /\ nClients' = nClients
        /\ nTasks' = nTasks
        /\ mqtt_options' = NoneOpt]_vars

\* "h:99999" was refused after an earlier build had succeeded
C9_Witness ==
    /\ config # NoneOpt
    /\ config[1].broker = <<"h", ":", "9", "9", "9", "9", "9">>
    /\ buildRes = "InvalidPort"
    /\ nClients = 1 /\ nTasks = 1
    /\ mqtt_options = NoneOpt

\* C10: 0, 1 and 2 map to AtMostOnce, AtLeastOnce and ExactlyOnce, every other
\* integer in 0..255 maps to AtMostOnce, and so does an absent qos
C10_QosMapping ==
    (config # NoneOpt /\ buildRes = "Ok") =>
        qos = CASE config[1].qos = NoneOpt -> "AtMostOnce"
                [] config[1].qos = Some(0) -> "AtMostOnce"
                [] config[1].qos = Some(1) -> "AtLeastOnce"
                [] config[1].qos = Some(2) -> "ExactlyOnce"
                [] OTHER -> "AtMostOnce"

\* qos 9 was built as AtMostOnce
C10_Witness ==
    /\ config # NoneOpt
    /\ config[1].qos = Some(9)
    /\ buildRes = "Ok"
    /\ qos = "AtMostOnce"

\* C11: every successful build creates one client session and spawns one
\* background thread of its own, a failed one creates neither, so the sessions
\* created and the threads spawned both equal the successful builds; building
\* the same config again adds a further session and thread
C11_OneSessionAndTaskPerBuild ==
    [][/\ (buildRes' = "Ok") <=> (nBuilt' = nBuilt + 1)
       /\ nBuilt' = nBuilt + 1 => (nClients' = nClients + 1 /\ nTasks' = nTasks + 1)
       /\ nBuilt' = nBuilt => (nClients' = nClients /\ nTasks' = nTasks)
       /\ nClients' = nBuilt' /\ nTasks' = nBuilt']_vars

\* the example config was built twice in a row: two sessions, two threads
C11_Witness ==
    /\ config = Some(ExampleConfig)
    /\ sameConfig
    /\ buildRes = "Ok"
    /\ nBuilt = 2 /\ nClients = 2 /\ nTasks = 2

Increasing(log) == \A i, j \in 1..Len(log) : i < j => log[i] < log[j]

\* C12: the publish invocations made for one thread's append calls reach the
\* client in the order in which the thread made the calls, whatever the other
\* threads do in between
C12_PerThreadOrderPreserved ==
    \A t \in Threads :
        /\ Increasing(reached[t])
        /\ \A i \in 1..Len(reached[t]) : reached[t][i] \in 1..calls[t]

\* one thread's two calls reached the client as 1, 2; the other thread's first
\* call failed in the encoder and its second call reached the client
C12_Witness ==
    \E t, u \in Threads :
        /\ t # u
        /\ reached[t] = <<1, 2>>
        /\ reached[u] = <<2>>

\* C13: the loop leaves only when the notification stream has ended, which
\* takes the appender to be dropped; after a notification of any kind it waits
\* for the next one; and a notification, a transport error included, changes
\* nothing for a thread inside or outside append
C13_LoopEndsOnlyWithStream ==
    [][/\ (taskPc = "next" /\ taskPc' # "next") =>
            (dropped /\ pending = 0 /\ UNCHANGED << connected, pending >>)
       /\ (taskPc = "next" /\ (connected' # connected \/ pending' < pending)) =>
            (taskPc' = "next" /\ UNCHANGED << threadVars, lock >>)
       /\ taskPc = "done" => taskPc' = "done"]_vars

\* the session was up, the queued request went out, then a transport error
\* took the session down: the loop still waits, one thread's append has
\* returned Ok and another thread is inside publish
C13_Witness ==
    \E t, u \in Threads :
        /\ t # u
        /\ taskPc = "next" /\ ~connected /\ pending = 0
        /\ Returned(t) /\ result[t] = "Ok"
        /\ pc[u] = "publish"

\* C14: a flush() call publishes nothing, leaves the lock, the client, the
\* session and the appender's fields as they are, and can return whenever the
\* calling thread is outside append, whoever holds the lock
C14_FlushIsNoOp ==
    /\ [][\A t \in Threads :
            (flushed'[t] /\ ~flushed[t]) =>
                UNCHANGED << cfgVars, lock, clientVars, taskVars, threadVars, dropped >>]_vars
    /\ [](\A t \in Threads : (pc[t] = "idle" /\ ~dropped) => ENABLED Flush(t))

\* a flush returned to a thread whose append had filled the channel, while the
\* other thread holds the lock inside a publish that waits for room
C14_Witness ==
    \E t, u \in Threads :
        /\ t # u
        /\ flushed[t] /\ result[t] = "Ok"
        /\ pc[u] = "publish" /\ lock = u /\ ~pubFail[u]
        /\ pending = ChannelCap /\ ~connected

\* C15: a thread holds the lock only from lock() to the end of append: it
\* takes it with the record encoded and the topic resolved, holds it through
\* its one publish invocation, and gives it up in its next step after publish
\* returned, on Ok and on Err
C15_LockWindowIsPublishOnly ==
    [][\A t \in Threads :
        /\ pc'[t] \in {"idle", "encode", "resolve", "lock"} => lock' # t
        /\ (lock # t /\ lock' = t) =>
            /\ pc[t] = "lock" /\ pc'[t] = "publish"
            /\ buffer[t] = Flatten(EncoderPieces(rec[t][1]))
            /\ topic[t] = ExpectedTopic(topic_template, rec[t][1])
        /\ (pc[t] = "publish" /\ pc'[t] # "publish") => (pc'[t] = "drop" /\ lock' = t)
        /\ (pc[t] = "drop" /\ pc'[t] # "drop") =>
            (lock = t /\ lock' = NoThread /\ pc'[t] = "idle" /\ pubs'[t] = 1)]_vars

\* one thread resolves its topic while the other, whose publish returned an
\* error, still holds the lock
C15_Witness ==
    \E t, u \in Threads :
        /\ t # u
        /\ pc[t] = "resolve"
        /\ pc[u] = "drop" /\ result[u] = "Err" /\ lock = u

\* C16: the lock is held by nobody or by an application thread between lock()
\* and the end of append; the loop can take its next notification whoever
\* holds the lock, and a thread at lock() waits only for another thread
C16_BackgroundTaskNeverLocks ==
    /\ lock \in Threads \cup {NoThread}
    /\ lock # NoThread => pc[lock] \in {"publish", "drop"}
    /\ taskPc = "next" => ENABLED IterNext("Err")
    /\ (taskPc = "next" /\ connected) => ENABLED IterNext("Outgoing")
    /\ \A t \in Threads :
        (pc[t] = "lock" /\ ~ENABLED Lock(t)) => lock \in Threads \ {t}

\* a transport error was consumed while a thread, whose publish returned with
\* the session up, still holds the lock
C16_Witness ==
    \E t \in Threads :
        /\ lock = t /\ pc[t] = "drop"
        /\ pubConn[t] /\ ~connected
        /\ taskPc = "next"

\* C17: the session options carry credentials exactly when the config has
\* both a username and a password; with one of them or none the build succeeds
\* all the same and the options carry no credentials
C17_CredentialsNeedBoth ==
    config # NoneOpt =>
        /\ (config[1].broker = DefaultBroker /\ config[1].encoder # Some("Unknown")) =>
                buildRes = "Ok"
        /\ buildRes = "Ok" =>
            mqtt_options[1].credentials =
                (IF config[1].username = NoneOpt \/ config[1].password = NoneOpt
                 THEN NoneOpt
                 ELSE Some(<<config[1].username[1], config[1].password[1]>>))

\* a config with a username and no password was built without credentials
C17_Witness ==
    /\ config # NoneOpt
    /\ config[1].username = Some(<<"u">>) /\ config[1].password = NoneOpt
    /\ buildRes = "Ok"
    /\ mqtt_options[1].credentials = NoneOpt

\* C18: an append whose encoder fails returns the error having made no
\* publish invocation and without touching the lock or the client, and the
\* other threads are where they were; a thread that encodes never holds the lock
C18_EncodeFailureTouchesNothing ==
    [][\A t \in Threads :
        /\ pc'[t] = "encode" => (lock' # t /\ pubs'[t] = 0)
        /\ (pc[t] = "encode" /\ pc'[t] = "idle") =>
            /\ result'[t] = "Err"
            /\ pubs'[t] = 0
            /\ lock # t
            /\ UNCHANGED << lock, clientVars, taskVars >>
            /\ \A u \in Threads \ {t} :
                /\ pc'[u] = pc[u] /\ result'[u] = result[u] /\ pubs'[u] = pubs[u]
                /\ (ENABLED Lock(u)) => (ENABLED Lock(u))']_vars

\* an append returned the encoder's error without a publish while the other
\* thread holds the lock inside a publish that waits for room in the channel
C18_Witness ==
    \E t, u \in Threads :
        /\ t # u
        /\ Returned(t) /\ result[t] = "Err" /\ pubs[t] = 0
        /\ pc[u] = "publish" /\ lock = u /\ ~pubFail[u]
        /\ pending = ChannelCap

AllIdle == \A t \in Threads : pc[t] = "idle"

\* C19: with fair threads and a fair lock, if every publish invocation
\* returns (no thread stays inside publish for ever) then every append call
\* returns, and the lock is free whenever no thread is inside append
C19_NoDeadlock ==
    (\A u \in Threads : []<>(pc[u] # "publish")) =>
        /\ \A t \in Threads : (pc[t] # "idle") ~> (pc[t] = "idle")
        /\ [](AllIdle => lock = NoThread)

\* a thread waits at lock() for the other thread, whose publish has returned
\* and which is about to leave append
C19_Witness ==
    \E t, u \in Threads :
        /\ t # u
        /\ pc[t] = "lock"
        /\ pc[u] = "drop" /\ lock = u /\ result[u] = "Ok"

TypeOK ==
    /\ lock \in Threads \cup {NoThread}
    /\ pending \in 0..ChannelCap
    /\ connected \in BOOLEAN
    /\ pc \in [Threads -> {"idle", "encode", "resolve", "lock", "publish", "drop"}]
    /\ taskPc \in {"next", "done"}
    /\ flushed \in [Threads -> BOOLEAN]
    /\ dropped \in BOOLEAN
    /\ calls \in [Threads -> 0..MaxCalls]

====
